---- MODULE Spec2Model ----
(***************************************************************************)
(* HealthMate backend (src/main.py): the users table, POST /signup and     *)
(* POST /login, as a state machine.  Each request runs in one of the       *)
(* server processes that share the database.  A handler makes its store    *)
(* calls synchronously, so inside one process a handler body runs without  *)
(* interruption; requests served by different processes interleave         *)
(* between their store accesses (a query, a commit), and each such access  *)
(* is a step of the model.  A step that touches no store (reading the      *)
(* body, comparing the passwords, building the response) is taken          *)
(* together with the store access next to it.                              *)
(***************************************************************************)
EXTENDS Integers, Sequences, FiniteSets, TLC

\* ------------------------------------------------------------------ bounds

\* Total number of requests the model lets start.
MaxRequests == 3

\* The server processes (workers) that serve requests concurrently.
Procs == {1, 2}

\* ------------------------------------------------------------------ values

\* Python's None: a key missing from the JSON body (dict.get) or SQL NULL.
None == "<None>"

\* None for an integer: SELECT max(uid) on an empty table (NULL), or a
\* request without the uid query parameter.
NoUid == -1

Names == {"Alice", "Bob"}
Emails == {"a@x.com", "b@x.com"}
Phones == {"555"}
Passwords == {"p", "q"}

\* Roles a signup body carries (None: the key is missing).
SignupRoles == {"patient", "doctor", None}
\* Roles the login form carries (a required form field).
LoginRoles == {"patient", "doctor", "user"}

\* The bodies of POST /signup: well-formed ones whose passwords match,
\* ones whose passwords differ, and ones with a missing name or password.
SignupInputs ==
    [kind : {"signup"}, name : {"Alice"}, email : Emails, phone : Phones,
     password : {"p"}, confirm_password : {"p"}, role : SignupRoles,
     uid : {NoUid}]
    \cup
    [kind : {"signup"}, name : {"Bob"}, email : {"b@x.com"}, phone : Phones,
     password : {"q"}, confirm_password : {"q"}, role : {"doctor"},
     uid : {NoUid}]
    \cup
    [kind : {"signup"}, name : {"Alice"}, email : Emails, phone : Phones,
     password : {"p", None}, confirm_password : {"q"}, role : {"doctor"},
     uid : {NoUid}]
    \cup
    [kind : {"signup"}, name : {None}, email : {"a@x.com"}, phone : Phones,
     password : {"p"}, confirm_password : {"p"}, role : {"patient"},
     uid : {NoUid}]
    \cup
    [kind : {"signup"}, name : {"Alice"}, email : {"a@x.com"}, phone : Phones,
     password : {None}, confirm_password : {None}, role : {"patient"},
     uid : {NoUid}]

\* A stored digest (the SHA-256 of "p") submitted as the password.
Digests == {"148de9c5a7a44d19e56cd9ae1a554bf67847afb0c58f6e12fa29ac7ddfca9940"}

\* The forms of POST /login.
LoginInputs ==
    [kind : {"login"}, name : {None}, email : Emails, phone : {None},
     password : Passwords, confirm_password : {None}, role : LoginRoles,
     uid : {NoUid}]
    \cup
    [kind : {"login"}, name : {None}, email : {"a@x.com"}, phone : {None},
     password : Digests, confirm_password : {None}, role : {"patient"},
     uid : {NoUid}]

\* The uid query parameter of GET /dashboard: absent, 0, or a number.
DashboardUids == {NoUid, 0, 10000, 10001}

\* The requests GET /dashboard.
DashboardInputs ==
    [kind : {"dashboard"}, name : {None}, email : {None}, phone : {None},
     password : {None}, confirm_password : {None}, role : {None},
     uid : DashboardUids]

NoReq ==
    [kind |-> "none", name |-> None, email |-> None, phone |-> None,
     password |-> None, confirm_password |-> None, role |-> None,
     uid |-> NoUid]

\* ------------------------------------------------------------------ state

VARIABLES
    users,      \* the committed rows of table users, in insertion order;
                \* a row's position is its primary key id
    pc,         \* per worker: where its request is
    req,        \* per worker: the request it serves
    session,    \* per worker: the session get_db gave its request
    open,       \* the sessions that are open
    uidv,       \* per worker: the value get_next_uid returned to it
    resp,       \* per worker: the response its handler returned
    raised,     \* per worker: the exception raised in its handler, "" if none
    wrote,      \* per worker: the ids of the rows its request committed,
                \* or the names of the files it created in uploads/
    seen,       \* per worker: Len(users) when its request arrived, which
                \* is the table its email lookup reads
    seenAlloc,  \* per worker: Len(users) when get_next_uid read the maximum
    nreq,       \* number of requests started
    ANALYZER_AVAILABLE,  \* whether the analyzer module was imported
    files       \* the names of the regular files in directory uploads/

vars ==
    <<users, pc, req, session, open, uidv, resp, raised, wrote, seen,
      seenAlloc, nreq, ANALYZER_AVAILABLE, files>>

\* No session: the request's get_db has not run, or has closed it.
NoSession == <<0, 0>>

NoResp == [status |-> 0, message |-> "", url |-> "", user_name |-> ""]

\* ------------------------------------------------------------------ hashing

\* hashlib.sha256(password.encode('utf-8')).hexdigest()
get_password_hash(password) ==
    CASE password = "p" ->
           "148de9c5a7a44d19e56cd9ae1a554bf67847afb0c58f6e12fa29ac7ddfca9940"
      [] password = "q" ->
           "8e35c2cd3bf6641bdb0e2050b76932cbb2e6034a0ddacc1d9bea82a6ba57f7cf"
      [] password =
           "148de9c5a7a44d19e56cd9ae1a554bf67847afb0c58f6e12fa29ac7ddfca9940" ->
           "8f9644de0487338e6b422a44eaafc1844374e471b4b8bc832674cc10fab12917"

\* A verification that accepts every password.
verify_password_any(plain_password, hashed_password) == TRUE

verify_password(plain_password, hashed_password) ==
    get_password_hash(plain_password) = hashed_password

\* ------------------------------------------------------------------ store

UidFloor == 10000

MaxUid(table) ==
    IF Len(table) = 0 THEN NoUid
    ELSE CHOOSE m \in {table[i].uid : i \in 1..Len(table)} :
             \A i \in 1..Len(table) : table[i].uid <= m

\* get_next_uid without its floor: the maximum plus one, 1 on an empty table.
get_next_uid_nofloor(table) ==
    IF MaxUid(table) = NoUid THEN 1 ELSE MaxUid(table) + 1

\* An allocation by the number of rows instead of the maximum uid.
get_next_uid_count(table) == UidFloor + Len(table)

\* An allocation that leaves a gap: the maximum plus two.
get_next_uid_skip(table) ==
    LET max_uid == MaxUid(table)
    IN  IF max_uid = NoUid \/ max_uid < UidFloor THEN UidFloor ELSE max_uid + 2

get_next_uid(table) ==
    LET max_uid == MaxUid(table)
    IN  IF max_uid = NoUid \/ max_uid < UidFloor THEN UidFloor ELSE max_uid + 1

\* An email lookup that finds nothing.
FirstByEmail_none(table, email) == 0

\* An email lookup that compares the first row only.
FirstByEmail_firstRow(table, email) ==
    IF Len(table) >= 1 /\ table[1].email = email THEN 1 ELSE 0

\* db.query(User).filter(User.email == email).first(): the id of the first
\* row with that email, 0 when there is none (email None compares IS NULL).
FirstByEmail(table, email) ==
    LET hits == {i \in 1..Len(table) : table[i].email = email}
    IN  IF hits = {} THEN 0 ELSE CHOOSE i \in hits : \A j \in hits : i <= j

\* The constraints of table users that an INSERT must meet.
NotNullOK(row) ==
    row.name # None /\ row.email # None /\ row.password # None

\* Column uid declared without unique=True.
UniqueUidOK_off(table, row) == TRUE

UniqueUidOK(table, row) ==
    \A i \in 1..Len(table) : table[i].uid # row.uid

\* Column email declared without unique=True.
UniqueEmailOK_off(table, row) == TRUE

UniqueEmailOK(table, row) ==
    \A i \in 1..Len(table) : table[i].email # row.email

InsertOK(table, row) ==
    NotNullOK(row) /\ UniqueUidOK(table, row) /\ UniqueEmailOK(table, row)

\* A rejected INSERT whose row stays in the table.
RolledBack_kept(table, row) == Append(table, row)

\* A rejected INSERT that overwrites the row it collided with (a merge).
RolledBack_merged(table, row) ==
    [i \in 1..Len(table) |->
        IF table[i].email = row.email \/ table[i].uid = row.uid
        THEN row ELSE table[i]]

\* The table after an INSERT of row that a constraint or the store rejected:
\* commit raises, the session is closed without another commit (get_db),
\* and the transaction is rolled back.
RolledBack(table, row) == table

\* A row that keeps the password as it was submitted.
NewUser_plain(uid, data) ==
    [uid |-> uid, name |-> data.name, email |-> data.email,
     phone |-> data.phone, password |-> data.password,
     role |-> IF data.role = None THEN "user" ELSE data.role]

\* The row INSERTed for User(...): a role of None takes the column default.
NewUser(uid, data) ==
    [uid |-> uid, name |-> data.name, email |-> data.email,
     phone |-> data.phone, password |-> get_password_hash(data.password),
     role |-> IF data.role = None THEN "user" ELSE data.role]

\* ------------------------------------------------------------------ responses

JSONResponse(message, redirect_url, status_code) ==
    [status |-> status_code, message |-> message, url |-> redirect_url,
     user_name |-> ""]

RedirectResponse(url) ==
    [status |-> 303, message |-> "", url |-> url, user_name |-> ""]

PasswordsDoNotMatch == JSONResponse("Passwords do not match.", "", 400)
EmailAlreadyRegistered == JSONResponse("Email already registered.", "", 409)
\* The except clause answering with the conflict status.
InternalError_conflict ==
    JSONResponse("Internal server error during signup.", "", 409)

InternalError == JSONResponse("Internal server error during signup.", "", 500)

\* f"{target}?uid={new_user.uid}"
DashboardUrl(path, uid) == path \o "?uid=" \o ToString(uid)

\* A target that sends every role but 'patient' to the doctor dashboard.
SignupTarget_notPatient(role) ==
    IF role # "patient" THEN "/doctor_dashboard" ELSE "/dashboard"

\* target = '/doctor_dashboard' if new_user.role == 'doctor' else '/dashboard'
SignupTarget(role) ==
    IF role = "doctor" THEN "/doctor_dashboard" ELSE "/dashboard"

Success(row) ==
    JSONResponse("Success", DashboardUrl(SignupTarget(row.role), row.uid), 201)

\* A path that sends only 'patient' to the plain dashboard.
LoginPath_notPatient(role) ==
    IF role = "patient" THEN "/dashboard" ELSE "/doctor_dashboard"

\* path = "/doctor_dashboard" if user.role == "doctor" else "/dashboard"
LoginPath(role) ==
    IF role = "doctor" THEN "/doctor_dashboard" ELSE "/dashboard"

IncorrectRole == RedirectResponse("/login?error=Incorrect role selected.")
InvalidCredentials == RedirectResponse("/login?error=Invalid email or password.")

\* A decision that does not compare the role.
LoginDecision_noRole(table, user, password, role) ==
    IF user # 0 /\ verify_password(password, table[user].password)
    THEN RedirectResponse(
             DashboardUrl(LoginPath(table[user].role), table[user].uid))
    ELSE InvalidCredentials

\* The decision of login_user once the lookup has returned row id `user`
\* (0: no row).
LoginDecision(table, user, password, role) ==
    IF user # 0 /\ verify_password(password, table[user].password)
    THEN IF table[user].role = role
         THEN RedirectResponse(
                  DashboardUrl(LoginPath(table[user].role), table[user].uid))
         ELSE IncorrectRole
    ELSE InvalidCredentials

\* templates.TemplateResponse("dashboard.html",
\*     get_template_context(request, user_name, uid))
TemplateResponse(user_name) ==
    [status |-> 200, message |-> "", url |-> "", user_name |-> user_name]

\* A lookup by uid that returns the first row of the table.
FirstByUid_any(table, uid) == IF Len(table) >= 1 THEN 1 ELSE 0

\* db.query(User).filter(User.uid == uid).first(): the id of the first row
\* with that uid, 0 when there is none.
FirstByUid(table, uid) ==
    LET hits == {i \in 1..Len(table) : table[i].uid = uid}
    IN  IF hits = {} THEN 0 ELSE CHOOSE i \in hits : \A j \in hits : i <= j

\* `if uid:` of read_dashboard: None and 0 are false.
Truthy(uid) == uid # NoUid /\ uid # 0

\* The display name read_dashboard resolves.
DisplayName(table, uid) ==
    IF Truthy(uid) /\ FirstByUid(table, uid) # 0
    THEN table[FirstByUid(table, uid)].name
    ELSE "Anonymous"

\* data.get('password') != data.get('confirm_password')
PasswordMismatch(data) == data.password # data.confirm_password

\* ------------------------------------------------------------------ init

Init ==
    /\ users = <<>>
    /\ pc = [p \in Procs |-> "idle"]
    /\ req = [p \in Procs |-> NoReq]
    /\ session = [p \in Procs |-> NoSession]
    /\ open = {}
    /\ uidv = [p \in Procs |-> 0]
    /\ resp = [p \in Procs |-> NoResp]
    /\ raised = [p \in Procs |-> ""]
    /\ wrote = [p \in Procs |-> {}]
    /\ seen = [p \in Procs |-> 0]
    /\ seenAlloc = [p \in Procs |-> 0]
    /\ nreq = 0
    /\ ANALYZER_AVAILABLE = TRUE
    /\ files = {}

\* A row the table held before this program allocated uids: create_all
\* keeps an existing users table, whose uids need not start at the floor.
LegacyRow(uid, email) ==
    [uid |-> uid, name |-> "Old", email |-> email, phone |-> "555",
     password |-> get_password_hash("q"), role |-> "user"]

\* The tables the program may be started on: empty, a maximum just below
\* the floor, and a maximum above it that is not on the last row.
LegacyTables ==
    {<<>>,
     <<LegacyRow(9999, "old@x.com")>>,
     <<LegacyRow(10004, "old@x.com"), LegacyRow(3, "older@x.com")>>}

InitLegacy ==
    /\ users \in LegacyTables
    /\ pc = [p \in Procs |-> "idle"]
    /\ req = [p \in Procs |-> NoReq]
    /\ session = [p \in Procs |-> NoSession]
    /\ open = {}
    /\ uidv = [p \in Procs |-> 0]
    /\ resp = [p \in Procs |-> NoResp]
    /\ raised = [p \in Procs |-> ""]
    /\ wrote = [p \in Procs |-> {}]
    /\ seen = [p \in Procs |-> 0]
    /\ seenAlloc = [p \in Procs |-> 0]
    /\ nreq = 0
    /\ ANALYZER_AVAILABLE = TRUE
    /\ files = {}

\* ------------------------------------------------------------------ signup

\* The handler returns response r (raising exc inside its try block first,
\* when exc is not "").
Return(p, r, exc) ==
    /\ resp' = [resp EXCEPT ![p] = r]
    /\ raised' = [raised EXCEPT ![p] = exc]
    /\ pc' = [pc EXCEPT ![p] = "closing"]

\* SessionLocal(): a new session object.  Sessions are named <<p, k>>, the
\* k-th session alive in worker p; the new one is the first not open.
SessionLocal(p, sessions) ==
    LET k == CHOOSE n \in 1..(Cardinality(sessions) + 1) :
                 /\ <<p, n>> \notin sessions
                 /\ \A m \in 1..(n - 1) : <<p, m>> \in sessions
    IN  <<p, k>>

\* A request arrives at a free worker: get_db opens its session.
Begin(p, data) ==
    /\ pc[p] = "idle"
    /\ nreq < MaxRequests
    /\ nreq' = nreq + 1
    /\ req' = [req EXCEPT ![p] = data]
    /\ session' = [session EXCEPT ![p] = SessionLocal(p, open)]
    /\ open' = open \cup {session'[p]}
    /\ seen' = [seen EXCEPT ![p] = Len(users)]

\* signup_user with the email looked up before the passwords are compared.
SignupBegin_emailFirst(p) ==
    \E data \in SignupInputs :
        /\ Begin(p, data)
        /\ IF FirstByEmail(users, data.email) # 0
           THEN Return(p, EmailAlreadyRegistered, "")
           ELSE IF PasswordMismatch(data)
                THEN Return(p, PasswordsDoNotMatch, "")
                ELSE /\ pc' = [pc EXCEPT ![p] = "alloc"]
                     /\ UNCHANGED <<resp, raised>>
        /\ UNCHANGED <<users, uidv, wrote, seenAlloc,
                       ANALYZER_AVAILABLE, files>>

\* signup_user up to and including its first query: the body is read, the
\* passwords are compared, the email is looked up.
SignupBegin(p) ==
    \E data \in SignupInputs :
        /\ Begin(p, data)
        /\ IF PasswordMismatch(data)
           THEN Return(p, PasswordsDoNotMatch, "")
           ELSE IF FirstByEmail(users, data.email) # 0
                THEN Return(p, EmailAlreadyRegistered, "")
                ELSE /\ pc' = [pc EXCEPT ![p] = "alloc"]
                     /\ UNCHANGED <<resp, raised>>
        /\ UNCHANGED <<users, uidv, wrote, seenAlloc,
                       ANALYZER_AVAILABLE, files>>

\* signup_user whose body is not JSON: request.json() raises.
SignupBadJson(p) ==
    /\ Begin(p, [NoReq EXCEPT !.kind = "signup_badjson"])
    /\ Return(p, InternalError, "json")
    /\ UNCHANGED <<users, uidv, wrote, seenAlloc,
                   ANALYZER_AVAILABLE, files>>

\* get_next_uid's max query, then the password is hashed for User(...):
\* hashing None raises.
SignupAlloc(p) ==
    /\ pc[p] = "alloc"
    /\ uidv' = [uidv EXCEPT ![p] = get_next_uid(users)]
    /\ seenAlloc' = [seenAlloc EXCEPT ![p] = Len(users)]
    /\ IF req[p].password = None
       THEN Return(p, InternalError, "hash")
       ELSE /\ pc' = [pc EXCEPT ![p] = "commit"]
            /\ UNCHANGED <<resp, raised>>
    /\ UNCHANGED <<users, req, session, open, wrote, seen, nreq,
                   ANALYZER_AVAILABLE, files>>

\* db.add(new_user); db.commit(): the INSERT is flushed and committed, or
\* a constraint rejects it, commit raises and nothing is stored.  After a
\* commit, new_user.role and new_user.uid are reloaded from the stored row
\* (the commit expired them) and the 201 is built.
SignupCommit(p) ==
    /\ pc[p] = "commit"
    /\ LET new_user == NewUser(uidv[p], req[p])
       IN  IF InsertOK(users, new_user)
           THEN /\ users' = Append(users, new_user)
                /\ wrote' = [wrote EXCEPT ![p] = @ \cup {Len(users')}]
                /\ Return(p, Success(users'[Len(users')]), "")
           ELSE /\ users' = RolledBack(users, new_user)
                /\ Return(p, InternalError, "integrity")
                /\ UNCHANGED wrote
    /\ UNCHANGED <<req, session, open, uidv, seen, seenAlloc, nreq,
                   ANALYZER_AVAILABLE, files>>

\* ------------------------------------------------------------------ login

\* login_user: the lookup by email and the decision.
Login(p) ==
    \E data \in LoginInputs :
        /\ Begin(p, data)
        /\ Return(p, LoginDecision(users, FirstByEmail(users, data.email),
                                   data.password, data.role), "")
        /\ UNCHANGED <<users, uidv, wrote, seenAlloc,
                       ANALYZER_AVAILABLE, files>>

\* ------------------------------------------------------------------ dashboard

\* read_dashboard: the lookup by uid (when uid is truthy) and the view.
Dashboard(p) ==
    \E data \in DashboardInputs :
        /\ Begin(p, data)
        /\ Return(p, TemplateResponse(DisplayName(users, data.uid)), "")
        /\ UNCHANGED <<users, uidv, wrote, seenAlloc,
                       ANALYZER_AVAILABLE, files>>

\* ------------------------------------------------------------------ get_db

\* A get_db without try/finally: an exception that leaves the handler
\* leaves the session open.
Close_noFinally(p) ==
    /\ pc[p] = "closing"
    /\ pc' = [pc EXCEPT ![p] = "idle"]
    /\ session' = [session EXCEPT ![p] = NoSession]
    /\ open' = IF raised[p] = "unhandled" THEN open ELSE open \ {session[p]}
    /\ req' = [req EXCEPT ![p] = NoReq]
    /\ uidv' = [uidv EXCEPT ![p] = 0]
    /\ resp' = [resp EXCEPT ![p] = NoResp]
    /\ raised' = [raised EXCEPT ![p] = ""]
    /\ wrote' = [wrote EXCEPT ![p] = {}]
    /\ seen' = [seen EXCEPT ![p] = 0]
    /\ seenAlloc' = [seenAlloc EXCEPT ![p] = 0]
    /\ UNCHANGED <<users, nreq,
                   ANALYZER_AVAILABLE, files>>

\* get_db's finally: the session is closed once the handler has returned
\* or raised; the worker is free for the next request.
Close(p) ==
    /\ pc[p] = "closing"
    /\ pc' = [pc EXCEPT ![p] = "idle"]
    /\ session' = [session EXCEPT ![p] = NoSession]
    /\ open' = open \ {session[p]}
    /\ req' = [req EXCEPT ![p] = NoReq]
    /\ uidv' = [uidv EXCEPT ![p] = 0]
    /\ resp' = [resp EXCEPT ![p] = NoResp]
    /\ raised' = [raised EXCEPT ![p] = ""]
    /\ wrote' = [wrote EXCEPT ![p] = {}]
    /\ seen' = [seen EXCEPT ![p] = 0]
    /\ seenAlloc' = [seenAlloc EXCEPT ![p] = 0]
    /\ UNCHANGED <<users, nreq,
                   ANALYZER_AVAILABLE, files>>

\* ------------------------------------------------------------------ faults

\* The store fails a query or a commit (connection lost, database
\* unavailable).  signup_user makes its store calls inside its try block;
\* login_user has no try block.

\* The email lookup of signup_user fails.
FaultSignupLookup(p) ==
    \E data \in SignupInputs :
        /\ ~PasswordMismatch(data)
        /\ Begin(p, data)
        /\ Return(p, InternalError, "store_lookup")
        /\ UNCHANGED <<users, uidv, wrote, seenAlloc,
                       ANALYZER_AVAILABLE, files>>

\* The max query of get_next_uid fails.
FaultAlloc(p) ==
    /\ pc[p] = "alloc"
    /\ Return(p, InternalError, "store_max")
    /\ UNCHANGED <<users, req, session, open, uidv, wrote, seen, nreq, seenAlloc,
                   ANALYZER_AVAILABLE, files>>

\* The commit fails: nothing is stored.
FaultCommit(p) ==
    /\ pc[p] = "commit"
    /\ users' = RolledBack(users, NewUser(uidv[p], req[p]))
    /\ Return(p, InternalError, "store_commit")
    /\ UNCHANGED <<req, session, open, uidv, wrote, seen, nreq, seenAlloc,
                   ANALYZER_AVAILABLE, files>>

\* The commit succeeds and the reload of the committed row fails.
FaultRefresh(p) ==
    /\ pc[p] = "commit"
    /\ LET new_user == NewUser(uidv[p], req[p])
       IN  /\ InsertOK(users, new_user)
           /\ users' = Append(users, new_user)
           /\ wrote' = [wrote EXCEPT ![p] = @ \cup {Len(users')}]
    /\ Return(p, InternalError, "store_reload")
    /\ UNCHANGED <<req, session, open, uidv, seen, nreq, seenAlloc,
                   ANALYZER_AVAILABLE, files>>

\* The lookup of login_user fails: the exception leaves the handler.
FaultLoginLookup(p) ==
    \E data \in LoginInputs :
        /\ Begin(p, data)
        /\ Return(p, NoResp, "unhandled")
        /\ UNCHANGED <<users, uidv, wrote, seenAlloc,
                       ANALYZER_AVAILABLE, files>>

\* The lookup of read_dashboard fails: the exception leaves the handler.
FaultDashboardLookup(p) ==
    \E data \in DashboardInputs :
        /\ Truthy(data.uid)
        /\ Begin(p, data)
        /\ Return(p, NoResp, "unhandled")
        /\ UNCHANGED <<users, uidv, wrote, seenAlloc,
                       ANALYZER_AVAILABLE, files>>

\* ------------------------------------------------------------------ upload

\* file.filename of the multipart part: two file names, and "." with which
\* os.path.join(upload_path, file.filename) is the directory uploads/.
Filenames == {"rx.png", "scan.jpg", "."}

\* The requests POST /api/analyze-prescription; name is file.filename.
UploadInputs ==
    {[NoReq EXCEPT !.kind = "upload", !.name = f] : f \in Filenames}

\* What analyze_prescription_image returns, an opaque value.
AnalyzerResults == {"result-1", "result-2"}

\* A file left in uploads/ by a process that was killed before its cleanup.
Leftovers == {"rx.png"}

IsDirectory(filename) == filename = "."

\* os.path.exists(temp_file_path)
Exists(dir, filename) == IsDirectory(filename) \/ filename \in dir

AIModuleUnavailable == JSONResponse("AI module unavailable.", "", 503)
ErrorProcessingImage == JSONResponse("Error processing image.", "", 500)
AnalysisResult(result) == JSONResponse(result, "", 200)

\* The answer of the server to an exception that left the handler.
ServerError == JSONResponse("Internal Server Error", "", 500)

InitUpload ==
    /\ users = <<>>
    /\ pc = [p \in Procs |-> "idle"]
    /\ req = [p \in Procs |-> NoReq]
    /\ session = [p \in Procs |-> NoSession]
    /\ open = {}
    /\ uidv = [p \in Procs |-> 0]
    /\ resp = [p \in Procs |-> NoResp]
    /\ raised = [p \in Procs |-> ""]
    /\ wrote = [p \in Procs |-> {}]
    /\ seen = [p \in Procs |-> 0]
    /\ seenAlloc = [p \in Procs |-> 0]
    /\ nreq = 0
    /\ ANALYZER_AVAILABLE \in BOOLEAN
    /\ files \in SUBSET Leftovers

\* The handler is entered: 503 when the analyzer was not imported.  The
\* handler has no await, so the event loop runs it to its end before it
\* starts another one; the endpoint has no get_db dependency.
UploadBegin(p) ==
    /\ \A q \in Procs : pc[q] \in {"idle", "closing"}
    /\ pc[p] = "idle"
    /\ nreq < MaxRequests
    /\ nreq' = nreq + 1
    /\ \E data \in UploadInputs : req' = [req EXCEPT ![p] = data]
    /\ IF ~ANALYZER_AVAILABLE
       THEN Return(p, AIModuleUnavailable, "")
       ELSE /\ pc' = [pc EXCEPT ![p] = "save"]
            /\ UNCHANGED <<resp, raised>>
    /\ UNCHANGED <<users, session, open, uidv, wrote, seen, seenAlloc,
                   ANALYZER_AVAILABLE, files>>

\* with open(temp_file_path, "wb") as buffer: shutil.copyfileobj(...):
\* the file is written, or open raises (always for a directory), or the
\* copy raises and leaves what it had written.
UploadSave(p) ==
    /\ pc[p] = "save"
    /\ \/ /\ ~IsDirectory(req[p].name)
          /\ files' = files \cup {req[p].name}
          /\ wrote' = [wrote EXCEPT ![p] = {req[p].name}]
          /\ pc' = [pc EXCEPT ![p] = "analyse"]
          /\ UNCHANGED <<resp, raised>>
       \/ /\ resp' = [resp EXCEPT ![p] = ErrorProcessingImage]
          /\ raised' = [raised EXCEPT ![p] = "save"]
          /\ pc' = [pc EXCEPT ![p] = "cleanup"]
          /\ UNCHANGED <<files, wrote>>
       \/ /\ ~IsDirectory(req[p].name)
          /\ files' = files \cup {req[p].name}
          /\ wrote' = [wrote EXCEPT ![p] = {req[p].name}]
          /\ resp' = [resp EXCEPT ![p] = ErrorProcessingImage]
          /\ raised' = [raised EXCEPT ![p] = "save"]
          /\ pc' = [pc EXCEPT ![p] = "cleanup"]
    /\ UNCHANGED <<users, req, session, open, uidv, seen, seenAlloc, nreq,
                   ANALYZER_AVAILABLE>>

\* result = analyze_prescription_image(temp_file_path): the 200 is built,
\* or the analyzer raises and the except clause builds the 500.
UploadAnalyse(p) ==
    /\ pc[p] = "analyse"
    /\ \/ /\ \E result \in AnalyzerResults :
                 resp' = [resp EXCEPT ![p] = AnalysisResult(result)]
          /\ UNCHANGED raised
       \/ /\ resp' = [resp EXCEPT ![p] = ErrorProcessingImage]
          /\ raised' = [raised EXCEPT ![p] = "analyse"]
    /\ pc' = [pc EXCEPT ![p] = "cleanup"]
    /\ UNCHANGED <<users, req, session, open, uidv, wrote, seen, seenAlloc,
                   nreq, ANALYZER_AVAILABLE, files>>

\* A cleanup that runs only when the handler raised nothing.
UploadCleanup_onSuccess(p) ==
    /\ pc[p] = "cleanup"
    /\ files' = IF raised[p] = "" THEN files \ {req[p].name} ELSE files
    /\ Return(p, resp[p], raised[p])
    /\ UNCHANGED <<users, req, session, open, uidv, wrote, seen, seenAlloc,
                   nreq, ANALYZER_AVAILABLE>>

\* finally: if os.path.exists(temp_file_path): os.remove(temp_file_path),
\* then the response built before is returned.  os.remove of a directory
\* raises, and the exception leaves the handler.
UploadCleanup(p) ==
    /\ pc[p] = "cleanup"
    /\ IF Exists(files, req[p].name)
       THEN IF IsDirectory(req[p].name)
            THEN /\ Return(p, ServerError, "unhandled")
                 /\ UNCHANGED files
            ELSE /\ files' = files \ {req[p].name}
                 /\ Return(p, resp[p], raised[p])
       ELSE /\ Return(p, resp[p], raised[p])
            /\ UNCHANGED files
    /\ UNCHANGED <<users, req, session, open, uidv, wrote, seen, seenAlloc,
                   nreq, ANALYZER_AVAILABLE>>

NextUpload ==
    \E p \in Procs :
        \/ UploadBegin(p)
        \/ UploadSave(p)
        \/ UploadAnalyse(p)
        \/ UploadCleanup(p)
        \/ Close(p)

\* ------------------------------------------------------------------ specs

Next ==
    \E p \in Procs :
        \/ SignupBegin(p)
        \/ SignupBadJson(p)
        \/ SignupAlloc(p)
        \/ SignupCommit(p)
        \/ Login(p)
        \/ Dashboard(p)
        \/ Close(p)

Fault ==
    \E p \in Procs :
        \/ FaultSignupLookup(p)
        \/ FaultAlloc(p)
        \/ FaultCommit(p)
        \/ FaultRefresh(p)
        \/ FaultLoginLookup(p)
        \/ FaultDashboardLookup(p)

NextFault == Next \/ Fault

\* The program over a store whose queries and commits do not fail other
\* than by the table's constraints.
Spec == Init /\ [][Next]_vars

\* The program over a store that may also fail any query or commit.
SpecFault == Init /\ [][NextFault]_vars

\* The program started on a users table that already holds rows.
SpecLegacy == InitLegacy /\ [][Next]_vars

\* The upload endpoint alone, the analyzer imported or not.
SpecUpload == InitUpload /\ [][NextUpload]_vars

\* ------------------------------------------------------------------ claims

\* The handler of worker p has returned (its session is not closed yet).
Returned(p) == pc[p] = "closing"

Ids == 1..Len(users)

\* C1: every committed account has a uid >= 10000 that no other committed
\* account has, and the first account committed has uid exactly 10000.
C1_UidsUniqueFromFloor ==
    /\ \A i \in Ids : users[i].uid >= 10000
    /\ \A i, j \in Ids : i # j => users[i].uid # users[j].uid
    /\ Len(users) >= 1 => users[1].uid = 10000

\* C1 witness: two accounts are committed, the second by a request that
\* arrived while the table was still empty (it ran concurrently with the
\* first).
C1_Witness ==
    /\ Len(users) = 2
    /\ \E p \in Procs : Returned(p) /\ wrote[p] = {2} /\ seen[p] = 0

\* C2: no two committed accounts have the same email.
C2_EmailsUnique ==
    \A i, j \in Ids : i # j => users[i].email # users[j].email

\* C2 witness: a signup that passed the email check attempted its INSERT
\* after another request had committed the same email, with a uid of its own.
C2_Witness ==
    \E p \in Procs :
        /\ Returned(p)
        /\ raised[p] = "integrity"
        /\ req[p].name # None
        /\ \A i \in Ids : users[i].uid # uidv[p]
        /\ \E i \in Ids : users[i].email = req[p].email

IsSignup(p) == req[p].kind = "signup"
IsLogin(p) == req[p].kind = "login"

\* The rows of the table when worker p's request arrived.
SeenIds(p) == 1..seen[p]

\* C3: two concurrent signups are not kept apart between their reads and
\* their commits.  A request that passed the email check did so on the
\* table it saw, a request about to commit holds the successor of the
\* maximum uid it read (10000 on an empty table), and so two requests that
\* read the same table hold the same uid.
C3_RaceWindow ==
    /\ \A p \in Procs :
           pc[p] \in {"alloc", "commit"} =>
               \A i \in SeenIds(p) : users[i].email # req[p].email
    /\ \A p \in Procs :
           pc[p] = "commit" =>
               LET U == {users[i].uid : i \in 1..seenAlloc[p]}
               IN  uidv[p] = IF U = {} \/ (\A u \in U : u < 10000)
                             THEN 10000
                             ELSE (CHOOSE m \in U : \A u \in U : u <= m) + 1
    /\ \A p, q \in Procs :
           pc[p] = "commit" /\ pc[q] = "commit" /\ seenAlloc[p] = seenAlloc[q]
               => uidv[p] = uidv[q]

\* C3 witness: two signups for the same email have both passed the email
\* check and both computed the same uid, and neither has committed.
C3_Witness ==
    \E p, q \in Procs :
        /\ p # q
        /\ pc[p] = "commit" /\ pc[q] = "commit"
        /\ uidv[p] = uidv[q]
        /\ req[p].email = req[q].email

\* C4: a signup whose password differs from its confirm_password returns
\* 400 and commits nothing, whether or not its email is registered.
C4_MismatchIs400 ==
    \A p \in Procs :
        Returned(p) /\ IsSignup(p)
            /\ req[p].password # req[p].confirm_password
        => /\ resp[p].status = 400
           /\ resp[p].message = "Passwords do not match."
           /\ wrote[p] = {}

\* C4 witness: a mismatched signup for a registered email has returned.
C4_Witness ==
    \E p \in Procs :
        /\ Returned(p) /\ IsSignup(p)
        /\ req[p].password # req[p].confirm_password
        /\ \E i \in Ids : users[i].email = req[p].email

\* C5: a signup with matching passwords whose email was registered when
\* the request arrived returns 409 and commits nothing.
C5_DuplicateIs409 ==
    \A p \in Procs :
        Returned(p) /\ IsSignup(p)
            /\ req[p].password = req[p].confirm_password
            /\ (\E i \in SeenIds(p) : users[i].email = req[p].email)
        => /\ resp[p].status = 409
           /\ wrote[p] = {}
           /\ Cardinality({i \in Ids : users[i].email = req[p].email}) = 1

\* C5 witness: a signup for a registered email has returned while another
\* signup is about to commit.
C5_Witness ==
    \E p, q \in Procs :
        /\ Returned(p) /\ IsSignup(p)
        /\ req[p].password = req[p].confirm_password
        /\ \E i \in SeenIds(p) : users[i].email = req[p].email
        /\ pc[q] = "commit"

\* C6: a step in which the INSERT or the commit of a signup fails (a
\* constraint violation or a store fault) returns 500 and leaves the
\* committed table as it was.
C6_FailedCommitAtomic ==
    [][\A p \in Procs :
           pc[p] = "commit" /\ raised'[p] \in {"integrity", "store_commit"}
           => /\ resp'[p].status = 500
              /\ users' = users
              /\ wrote'[p] = {}]_vars

\* C6 witness: a signup whose uid another request committed first has
\* returned 500.
C6_Witness ==
    \E p \in Procs :
        /\ Returned(p)
        /\ raised[p] = "integrity"
        /\ resp[p].status = 500
        /\ \E i \in Ids : users[i].uid = uidv[p] /\ users[i].email # req[p].email

Matches(p) == {i \in SeenIds(p) : users[i].email = req[p].email}

\* C8: a login whose email, password and role match an account is
\* redirected (303) to /doctor_dashboard?uid=<u> if the stored role is
\* 'doctor' and to /dashboard?uid=<u> otherwise, <u> the stored uid.
C8_LoginRedirect ==
    \A p \in Procs :
        Returned(p) /\ IsLogin(p) =>
            \A i \in Matches(p) :
                /\ users[i].password = get_password_hash(req[p].password)
                /\ users[i].role = req[p].role
                => /\ resp[p].status = 303
                   /\ resp[p].url =
                          (IF users[i].role = "doctor"
                           THEN "/doctor_dashboard?uid="
                           ELSE "/dashboard?uid=") \o ToString(users[i].uid)

\* C8 witness: a login as 'doctor' into the second account has been
\* redirected to the doctor dashboard with that account's uid.
C8_Witness ==
    \E p \in Procs :
        /\ Returned(p) /\ IsLogin(p) /\ req[p].role = "doctor"
        /\ Matches(p) = {2}
        /\ resp[p].url = "/doctor_dashboard?uid=10001"

\* C9: a login with the right email and password and a role other than the
\* stored one gets the redirect to /login with 'Incorrect role selected.'.
C9_RoleMismatch ==
    \A p \in Procs :
        Returned(p) /\ IsLogin(p) =>
            \A i \in Matches(p) :
                /\ users[i].password = get_password_hash(req[p].password)
                /\ users[i].role # req[p].role
                => /\ resp[p].status = 303
                   /\ resp[p].url = "/login?error=Incorrect role selected."

\* C9 witness: a login as 'patient' into a doctor's account has returned.
C9_Witness ==
    \E p \in Procs :
        /\ Returned(p) /\ IsLogin(p) /\ req[p].role = "patient"
        /\ \E i \in Matches(p) :
               /\ users[i].role = "doctor"
               /\ users[i].password = get_password_hash(req[p].password)

\* C10: a login whose email matches no account, or whose password does not
\* hash to the stored digest, gets the one redirect to /login with
\* 'Invalid email or password.', whatever role it submitted.
C10_InvalidCredentials ==
    \A p \in Procs :
        Returned(p) /\ IsLogin(p)
            /\ (\A i \in Matches(p) :
                    users[i].password # get_password_hash(req[p].password))
        => /\ resp[p].status = 303
           /\ resp[p].url = "/login?error=Invalid email or password."

\* C10 witness: a login for an unknown email and a login with a wrong
\* password and the stored role have both returned, with different roles.
C10_Witness ==
    \E p, q \in Procs :
        /\ Returned(p) /\ IsLogin(p) /\ Matches(p) = {}
        /\ Returned(q) /\ IsLogin(q)
        /\ \E i \in Matches(q) :
               /\ users[i].password # get_password_hash(req[q].password)
               /\ users[i].role = req[q].role
        /\ req[p].role # req[q].role
        /\ resp[p] = resp[q]

IsDashboard(p) == req[p].kind = "dashboard"

\* C11: GET /dashboard shows the stored name of the account whose uid is
\* the uid parameter when there is one, and 'Anonymous' when the parameter
\* is absent or matches no account; it answers 200 in both cases.
C11_DisplayName ==
    \A p \in Procs :
        Returned(p) /\ IsDashboard(p) =>
            LET hits == {i \in SeenIds(p) : users[i].uid = req[p].uid}
            IN  /\ resp[p].status = 200
                /\ raised[p] = ""
                /\ \A i \in hits : resp[p].user_name = users[i].name
                /\ hits = {} => resp[p].user_name = "Anonymous"

\* C11 witness: the dashboard of the second account, whose name differs
\* from the first account's, has been resolved.
C11_Witness ==
    \E p \in Procs :
        /\ Returned(p) /\ IsDashboard(p)
        /\ req[p].uid = 10001
        /\ resp[p].user_name = "Bob"
        /\ users[1].name = "Alice"

\* C12: every handler that has returned produced its response itself: no
\* exception left it unhandled, also when a store query or commit failed.
C12_NoUnhandledException ==
    \A p \in Procs :
        Returned(p) => raised[p] # "unhandled" /\ resp[p].status # 0

InFlight == {p \in Procs : pc[p] # "idle"}

\* C14: every request in flight holds an open session of its own, a worker
\* whose request has finished holds none, and the open sessions are exactly
\* those of the requests in flight.
C14_SessionPerRequest ==
    /\ \A p \in InFlight : session[p] \in open
    /\ \A p, q \in InFlight : p # q => session[p] # session[q]
    /\ \A p \in Procs \ InFlight : session[p] = NoSession
    /\ open = {session[p] : p \in InFlight}

\* C14 witness: three requests have finished, one of them a signup that
\* committed its account; no request is in flight and no session is open.
C14_Witness ==
    /\ InFlight = {}
    /\ open = {}
    /\ Len(users) = 1
    /\ nreq = 3

\* Every string a request submitted as a password, and every digest of one.
Secrets ==
    (Passwords \cup Digests)
        \cup {get_password_hash(x) : x \in Passwords \cup Digests}

\* The URLs that carry nothing but a path and the uid of an account.
UidUrls ==
    {path \o "?uid=" \o ToString(users[i].uid) :
        path \in {"/dashboard", "/doctor_dashboard"}, i \in Ids}

\* C15: the stored password of an account is the SHA-256 digest of the
\* password its signup submitted and never that password itself; the
\* responses of signup and login carry neither a password nor a digest; a
\* login passes verification exactly when the digest of its password is
\* the stored field.
C15_PasswordStoredHashed ==
    /\ \A i \in Ids : users[i].password \notin Passwords
    /\ \A p \in Procs :
           Returned(p) /\ IsSignup(p) =>
               /\ \A i \in wrote[p] :
                      /\ users[i].password = get_password_hash(req[p].password)
                      /\ users[i].password # req[p].password
               /\ resp[p].message \in
                      {"Passwords do not match.", "Email already registered.",
                       "Internal server error during signup.", "Success"}
               /\ resp[p].url \in {""} \cup UidUrls
               /\ resp[p].user_name = ""
    /\ \A p \in Procs :
           Returned(p) /\ IsLogin(p) =>
               /\ resp[p].message = ""
               /\ resp[p].user_name = ""
               /\ resp[p].url \in
                      {"/login?error=Incorrect role selected.",
                       "/login?error=Invalid email or password."} \cup UidUrls
               /\ \A i \in Matches(p) :
                      (resp[p].url # "/login?error=Invalid email or password.")
                          <=> (users[i].password
                                   = get_password_hash(req[p].password))

\* C15 witness: a login that submitted the stored digest of an account as
\* its password has failed verification, and a login with the password of
\* that account has passed it.
C15_Witness ==
    \E p, q \in Procs :
        /\ Returned(p) /\ IsLogin(p)
        /\ \E i \in Matches(p) : users[i].password = req[p].password
        /\ resp[p].url = "/login?error=Invalid email or password."
        /\ Returned(q) /\ IsLogin(q)
        /\ \E i \in Matches(q) :
               users[i].password = get_password_hash(req[q].password)
        /\ resp[q].url \in UidUrls

\* C17: the uids are committed in strictly increasing order: every account
\* has a greater uid than every account committed before it.
C17_UidsIncrease ==
    \A i, j \in Ids : i < j => users[i].uid < users[j].uid

\* C17 witness: with two accounts committed, a signup still holds the uid
\* it computed on the empty table and is about to INSERT it.
C17_Witness ==
    /\ Len(users) = 2
    /\ \E p \in Procs : pc[p] = "commit" /\ uidv[p] = UidFloor

Inserted(p) ==
    /\ Returned(p) /\ IsSignup(p)
    /\ uidv[p] # 0
    /\ raised[p] \in {"", "integrity"}

\* Worker p's row meets an account, not its own, with its uid or its email.
Collides(p) ==
    \E i \in Ids \ wrote[p] :
        users[i].uid = uidv[p] \/ users[i].email = req[p].email

\* C19: of two signups that computed the same uid, or passed the email
\* check for the same email, at most one returns 201; a signup whose row
\* collides with a committed account is rejected by the unique constraint
\* and returns 500, not 409, having committed nothing.
C19_CollisionIs500 ==
    /\ \A p, q \in Procs :
           p # q /\ Inserted(p) /\ Inserted(q)
               /\ (uidv[p] = uidv[q] \/ req[p].email = req[q].email)
           => ~(resp[p].status = 201 /\ resp[q].status = 201)
    /\ \A p \in Procs :
           Inserted(p) /\ Collides(p) =>
               /\ resp[p].status = 500
               /\ raised[p] = "integrity"
               /\ wrote[p] = {}

\* C19 witness: two signups with different emails computed the same uid;
\* one has returned 201 and the other 500.
C19_Witness ==
    \E p, q \in Procs :
        /\ Inserted(p) /\ Inserted(q)
        /\ uidv[p] = uidv[q]
        /\ req[p].email # req[q].email
        /\ resp[p].status = 201
        /\ resp[q].status = 500

\* C16: the step that evaluates get_next_uid yields 10000 when the table
\* is empty or its greatest uid is below 10000, and the greatest uid plus
\* one otherwise, and leaves the table as it is.
C16_NextUid ==
    [][\A p \in Procs :
           pc[p] = "alloc" /\ pc'[p] # "alloc" =>
               /\ users' = users
               /\ IF \A i \in Ids : users[i].uid < 10000
                  THEN uidv'[p] = 10000
                  ELSE \E i \in Ids :
                           /\ \A j \in Ids : users[j].uid <= users[i].uid
                           /\ uidv'[p] = users[i].uid + 1]_vars

\* C16 witness: on a table whose only uid is 9999 a signup has computed
\* uid 10000.
C16_Witness ==
    \E p \in Procs :
        /\ pc[p] = "commit"
        /\ uidv[p] = 10000
        /\ Len(users) = 1
        /\ users[1].uid = 9999

IsUpload(p) == req[p].kind = "upload"

\* C20: without the analyzer an upload is answered 503 and no step writes
\* a file or reaches the analyzer; with it, an upload is answered 200 with
\* what the analyzer returned, or 500 when saving or analysing raised, and
\* at the step that ends the handler the file it wrote does not exist.
C20_UploadOutcome ==
    /\ [](\A p \in Procs :
              Returned(p) /\ IsUpload(p) =>
                  IF ~ANALYZER_AVAILABLE
                  THEN resp[p].status = 503 /\ wrote[p] = {}
                  ELSE /\ resp[p].status \in {200, 500}
                       /\ resp[p].status = 200 <=> raised[p] = ""
                       /\ resp[p].status = 200 =>
                              /\ resp[p].message \in AnalyzerResults
                              /\ wrote[p] = {req[p].name})
    /\ [][/\ ~ANALYZER_AVAILABLE =>
                 /\ files' = files
                 /\ \A p \in Procs : pc'[p] \in {"idle", "closing"}
          /\ \A p \in Procs :
                 IsUpload(p) /\ ~Returned(p) /\ pc'[p] = "closing" =>
                     /\ \A f \in wrote[p] : f \notin files'
                     /\ req[p].name \notin files']_vars

\* C20 witness: an upload whose copy raised after the file was created has
\* been answered 500; the file is gone.
C20_Witness ==
    \E p \in Procs :
        /\ Returned(p) /\ IsUpload(p)
        /\ resp[p].status = 500
        /\ raised[p] = "save"
        /\ wrote[p] = {req[p].name}
        /\ req[p].name \notin files

====
